---- MODULE Spec2Model ----
(***************************************************************************)
(* Model of ensembler/tools/quick_model.py: the QuickModel constructor,    *)
(* which validates its arguments, resolves a target id and a template id   *)
(* list, and then drives the ensembler modeling / refinement pipeline.     *)
(*                                                                         *)
(* Python values that may be None are modelled as options: None is the     *)
(* empty tuple and a value v is the one-element tuple <<v>>.  Python       *)
(* strings that the code only tests for truthiness or passes on are TLA+   *)
(* strings; the console answer that the code lower-cases is a tuple of     *)
(* characters.  Sequence identities and cutoffs are whole percentages.     *)
(* The collaborators of the ensembler package are modelled by the call     *)
(* they receive (function, target, templates, clone count) appended to     *)
(* the log "calls"; the arguments that the constructor only forwards       *)
(* (chainids, structure_dirs, sim_length, the query strings) are not       *)
(* recorded, and InitProject shows in projectdir only.                     *)
(***************************************************************************)
EXTENDS Integers, Sequences, FiniteSets

\* ---------------------------------------------------------------- bounds
MaxReport == 2      \* longest report (templates-resolved-seq, sequence-identities)
MaxRounds == 2      \* prompt rounds the user may refuse before walking away

\* ------------------------------------------------------- python helpers
None == << >>
Some(v) == << v >>

\* truthiness of an optional str / list / int, as "if x:" / "not x" decide it
TruthyStr(o) == o # None /\ o[1] # ""
TruthyList(o) == o # None /\ Len(o[1]) > 0
TruthyInt(o) == o # None /\ o[1] # 0

\* a parameter the callee does not take at this call site
NoTarget == << "-", "-" >>
NoTemplates == << << >>, << >> >>
NoClones == << 0, 0 >>

Call(f, t, ts, n) == [fn |-> f, target |-> t, templates |-> ts, nclones |-> n]

\* ------------------------------------------------------ input universes
TemplateNames == << "TPL_A", "TPL_B", "TPL_C", "TPL_D" >>
SeqIdValues == {10, 50, 95}
CutoffValues == {0, 50}
TypedCutoffs == {40, 50}
TargetLists == { << >>, << "DISC_2", "DISC_1" >> }

\* the reports the collaborators may leave on disk
ResolvedSeqReports == { SubSeq(TemplateNames, 1, n) : n \in 0..MaxReport }
SeqIdReports ==
    UNION { { [i \in 1..n |-> << TemplateNames[i], f[i] >>] : f \in [1..n -> SeqIdValues] }
            : n \in 0..MaxReport }

\* answers the user may type at the confirmation prompt
Answers ==
    { << "y" >>, << "y", "e", "s" >>, << "Y", "e", "S" >>, << "N" >>, << "y", "e" >> }

ArgSets ==
    [ targetid : {None, Some(""), Some("TGT_0")},
      templateids : {None, Some(<< >>), Some(<< "TPL_B", "TPL_A" >>)},
      target_uniprot_entry_name : {None, Some("ABL1_HUMAN")},
      uniprot_domain_regex : {None, Some("^Protein kinase")},
      pdbids : {None, Some(<< "2F4J" >>)},
      template_uniprot_query : {None, Some("domain:kinase")},
      model_seqid_cutoff : {None} \cup { Some(c) : c \in CutoffValues },
      loopmodel : BOOLEAN,
      package_for_fah : BOOLEAN,
      nfahclones : {None, Some(0), Some(2)} ]

VARIABLES
    args,                   \* the constructor's arguments (self.* never reassigned)
    projectdir,             \* check_project_toplevel_dir(): the directory is a project
    targetid,               \* self.targetid
    templateids,            \* self.templateids
    existing_templates,     \* local of __init__
    templates_resolved_seq, \* local of __init__ (PDB path)
    df,                     \* the (template id, seqid) table of the selection
    seqid_cutoff,           \* parameter / local of the selection
    seqid_cutoff_chosen,    \* local of the selection
    confirm_seqid_cutoff,   \* local of the selection: the last answer typed
    typed,                  \* the cutoff typed at the latest cutoff prompt
    rounds,                 \* cutoff prompts answered so far
    targets,                \* gather_targets_obj.targets
    calls,                  \* calls made to the collaborators, in order
    nprompts,               \* raw_input calls made
    nwarnings,              \* warnings.warn calls made
    path,                   \* the branch of the template resolution taken
    pc,                     \* position in __init__ / the selection / _model
    err                     \* the exception that ended construction

vars == << args, projectdir, targetid, templateids, existing_templates,
           templates_resolved_seq, df, seqid_cutoff, seqid_cutoff_chosen,
           confirm_seqid_cutoff, typed, rounds, targets, calls, nprompts, nwarnings,
           path, pc, err >>

Init ==
    /\ args \in ArgSets
    /\ projectdir \in BOOLEAN
    /\ targetid = args.targetid
    /\ templateids = args.templateids
    /\ existing_templates = FALSE
    /\ templates_resolved_seq = << >>
    /\ df = << >>
    /\ seqid_cutoff = None
    /\ seqid_cutoff_chosen = FALSE
    /\ confirm_seqid_cutoff = None
    /\ typed = None
    /\ rounds = 0
    /\ targets = << >>
    /\ calls = << >>
    /\ nprompts = 0
    /\ nwarnings = 0
    /\ path = "unresolved"
    /\ pc = "init_project"
    /\ err = "none"

\* raise Exception(...) / an exception that propagates out of __init__
Raise(kind) ==
    /\ pc' = "raised"
    /\ err' = kind

\* lines 50-51: InitProject('.') turns a plain directory into a project
InitProject ==
    /\ pc = "init_project"
    /\ projectdir' = TRUE
    /\ pc' = "validate_target"
    /\ UNCHANGED << args, calls, targetid, templateids, existing_templates,
                    templates_resolved_seq, df, seqid_cutoff, seqid_cutoff_chosen,
                    confirm_seqid_cutoff, typed, rounds, targets, nprompts, nwarnings,
                    path, err >>

\* variant of TargetArgsInvalid: only the "neither" half of the test
TargetArgsInvalid_NeitherOnly ==
    ~TruthyStr(targetid) /\ ~TruthyStr(args.target_uniprot_entry_name)

\* line 53: neither or both of targetid / target_uniprot_entry_name
TargetArgsInvalid ==
    \/ (~TruthyStr(targetid) /\ ~TruthyStr(args.target_uniprot_entry_name))
    \/ (TruthyStr(targetid) /\ TruthyStr(args.target_uniprot_entry_name))

\* lines 53-54
ValidateTarget ==
    /\ pc = "validate_target"
    /\ IF TargetArgsInvalid
         THEN Raise("config")
         ELSE pc' = "resolve_target" /\ UNCHANGED err
    /\ UNCHANGED << args, projectdir, targetid, templateids, existing_templates,
                    templates_resolved_seq, df, seqid_cutoff, seqid_cutoff_chosen,
                    confirm_seqid_cutoff, typed, rounds, targets, calls, nprompts,
                    nwarnings, path >>

\* variant of DiscoveryArgsMissing: the domain pattern is not looked at
DiscoveryArgsMissing_NameOnly == ~TruthyStr(args.target_uniprot_entry_name)

\* line 57: the discovery parameters are incomplete
DiscoveryArgsMissing ==
    ~TruthyStr(args.target_uniprot_entry_name) \/ ~TruthyStr(args.uniprot_domain_regex)

\* variant of FirstTargetId: the last discovered target, targets[-1]
FirstTargetId_Last(ts) == ts[Len(ts)]

\* line 66: gather_targets_obj.targets[0].id
FirstTargetId(ts) == ts[1]

\* line 56 false: a targetid was passed, nothing to discover
KeepTargetId ==
    /\ pc = "resolve_target"
    /\ TruthyStr(targetid)
    /\ pc' = "check_existing"
    /\ UNCHANGED << args, projectdir, targetid, templateids, existing_templates,
                    templates_resolved_seq, df, seqid_cutoff, seqid_cutoff_chosen,
                    confirm_seqid_cutoff, typed, rounds, targets, calls, nprompts,
                    nwarnings, path, err >>

\* lines 56-61
RequireDiscoveryArgs ==
    /\ pc = "resolve_target"
    /\ ~TruthyStr(targetid)
    /\ DiscoveryArgsMissing
    /\ Raise("config")
    /\ UNCHANGED << args, projectdir, targetid, templateids, existing_templates,
                    templates_resolved_seq, df, seqid_cutoff, seqid_cutoff_chosen,
                    confirm_seqid_cutoff, typed, rounds, targets, calls, nprompts,
                    nwarnings, path >>

\* lines 62-66; targets[0] of an empty list raises IndexError
GatherTargetsFromUniProt ==
    /\ pc = "resolve_target"
    /\ ~TruthyStr(targetid)
    /\ ~DiscoveryArgsMissing
    /\ \E found \in TargetLists :
         /\ targets' = found
         /\ calls' = Append(calls, Call("GatherTargetsFromUniProt", NoTarget, NoTemplates, NoClones))
         /\ IF Len(found) = 0
              THEN Raise("IndexError") /\ UNCHANGED targetid
              ELSE /\ targetid' = Some(FirstTargetId(found))
                   /\ pc' = "check_existing"
                   /\ UNCHANGED err
    /\ UNCHANGED << args, projectdir, templateids, existing_templates,
                    templates_resolved_seq, df, seqid_cutoff, seqid_cutoff_chosen,
                    confirm_seqid_cutoff, typed, rounds, nprompts, nwarnings, path >>

\* lines 68-72: the report file exists and lists at least one template
CheckExistingTemplates ==
    /\ pc = "check_existing"
    /\ \E exists \in BOOLEAN, all_templates_resolved_seq \in ResolvedSeqReports :
         existing_templates' = (exists /\ Len(all_templates_resolved_seq) > 0)
    /\ pc' = "resolve_templates"
    /\ UNCHANGED << args, projectdir, targetid, templateids, templates_resolved_seq,
                    df, seqid_cutoff, seqid_cutoff_chosen, confirm_seqid_cutoff,
                    typed, rounds, targets, calls, nprompts, nwarnings, path, err >>

\* variant of TemplatePath: pdbids tested before templateids
TemplatePath_PdbFirst ==
    IF TruthyList(args.pdbids) THEN "pdbids"
    ELSE IF TruthyList(templateids) THEN "templateids"
    ELSE IF TruthyStr(args.template_uniprot_query) THEN "query"
    ELSE "existing"

\* the branch of lines 74-89 that the arguments select
TemplatePath ==
    IF TruthyList(templateids) THEN "templateids"
    ELSE IF TruthyList(args.pdbids) THEN "pdbids"
    ELSE IF TruthyStr(args.template_uniprot_query) THEN "query"
    ELSE "existing"

\* variant of MissingExistingTemplates: the check is skipped
MissingExistingTemplates_Skipped == FALSE

\* lines 75 and 86: these branches need templates already on disk
MissingExistingTemplates == ~existing_templates

\* lines 74-76
UseTemplateIds ==
    /\ pc = "resolve_templates"
    /\ TemplatePath = "templateids"
    /\ path' = "templateids"
    /\ IF MissingExistingTemplates
         THEN Raise("config")
         ELSE pc' = "check_empty" /\ UNCHANGED err
    /\ UNCHANGED << args, projectdir, targetid, templateids, existing_templates,
                    templates_resolved_seq, df, seqid_cutoff, seqid_cutoff_chosen,
                    confirm_seqid_cutoff, typed, rounds, targets, calls, nprompts,
                    nwarnings >>

\* lines 77-80
gather_templates_from_pdb ==
    /\ pc = "resolve_templates"
    /\ TemplatePath = "pdbids"
    /\ path' = "pdbids"
    /\ calls' = Append(calls, Call("gather_templates_from_pdb", NoTarget, NoTemplates, NoClones))
    /\ \E report \in ResolvedSeqReports :
         /\ templates_resolved_seq' = report
         /\ templateids' = Some(report)
    /\ pc' = "check_empty"
    /\ UNCHANGED << args, projectdir, targetid, existing_templates, df,
                    seqid_cutoff, seqid_cutoff_chosen, confirm_seqid_cutoff,
                    typed, rounds, targets, nprompts, nwarnings, err >>

\* lines 81-82
gather_templates_from_uniprot ==
    /\ pc = "resolve_templates"
    /\ TemplatePath = "query"
    /\ path' = "query"
    /\ calls' = Append(calls, Call("gather_templates_from_uniprot", NoTarget, NoTemplates, NoClones))
    /\ pc' = "align_all"
    /\ UNCHANGED << args, projectdir, targetid, templateids, existing_templates,
                    templates_resolved_seq, df, seqid_cutoff, seqid_cutoff_chosen,
                    confirm_seqid_cutoff, typed, rounds, targets, nprompts, nwarnings,
                    err >>

\* lines 85-87
UseExistingTemplates ==
    /\ pc = "resolve_templates"
    /\ TemplatePath = "existing"
    /\ path' = "existing"
    /\ IF MissingExistingTemplates
         THEN Raise("config")
         ELSE pc' = "align_all" /\ UNCHANGED err
    /\ UNCHANGED << args, projectdir, targetid, templateids, existing_templates,
                    templates_resolved_seq, df, seqid_cutoff, seqid_cutoff_chosen,
                    confirm_seqid_cutoff, typed, rounds, targets, calls, nprompts,
                    nwarnings >>

\* lines 83 / 88 and 97-98
align_all_templates ==
    /\ pc = "align_all"
    /\ calls' = Append(calls, Call("align_targets_and_templates", targetid, NoTemplates, NoClones))
    /\ pc' = "select_open"
    /\ UNCHANGED << args, projectdir, targetid, templateids, existing_templates,
                    templates_resolved_seq, df, seqid_cutoff, seqid_cutoff_chosen,
                    confirm_seqid_cutoff, typed, rounds, targets, nprompts, nwarnings,
                    path, err >>

\* line 128: str.lower() on the characters an answer may hold
LowerChar(c) ==
    CASE c = "Y" -> "y"
      [] c = "E" -> "e"
      [] c = "S" -> "s"
      [] c = "N" -> "n"
      [] OTHER -> c
Lower(s) == [i \in 1..Len(s) |-> LowerChar(s[i])]

\* variant of IsConfirmation: the answer is compared without lower()
IsConfirmation_CaseSensitive(answer) == answer \in { << "y" >>, << "y", "e", "s" >> }

\* line 128: confirm_seqid_cutoff.lower() in ['y', 'yes']
IsConfirmation(answer) == Lower(answer) \in { << "y" >>, << "y", "e", "s" >> }

\* variant of ExceedsCutoff: >= in place of >
ExceedsCutoff_OrEqual(seqid, cutoff) == seqid >= cutoff

\* lines 119, 125, 131: df.seqids > cutoff, for one row
ExceedsCutoff(seqid, cutoff) == seqid > cutoff

\* line 131: the boolean mask df.seqids > seqid_cutoff
SeqIdMask(table, cutoff) == [i \in 1..Len(table) |-> ExceedsCutoff(table[i][2], cutoff)]

\* line 131: df[mask], the rows whose mask entry is true, in the table's order
RECURSIVE SelectRows(_, _)
SelectRows(table, mask) ==
    IF table = << >>
      THEN << >>
      ELSE (IF Head(mask) THEN << Head(table) >> ELSE << >>)
           \o SelectRows(Tail(table), Tail(mask))

\* lines 131-132: list(df[df.seqids > seqid_cutoff].templateids)
SelectedTemplateIds(table, cutoff) ==
    LET selected_templates == SelectRows(table, SeqIdMask(table, cutoff))
    IN  [i \in 1..Len(selected_templates) |-> selected_templates[i][1]]

\* lines 84 / 89 and 100-120: enter the selection and load the report;
\* an absent cutoff leads to the prompts
OpenSelection ==
    /\ pc = "select_open"
    /\ calls' = Append(calls, Call("_select_templates_based_on_seqid_cutoff", targetid, NoTemplates, NoClones))
    /\ \E report \in SeqIdReports : df' = report
    /\ seqid_cutoff' = args.model_seqid_cutoff
    /\ seqid_cutoff_chosen' = FALSE
    /\ pc' = IF args.model_seqid_cutoff = None THEN "prompt_cutoff" ELSE "select_filter"
    /\ UNCHANGED << args, projectdir, targetid, templateids, existing_templates,
                    templates_resolved_seq, confirm_seqid_cutoff, typed, rounds, targets,
                    nprompts, nwarnings, path, err >>

\* lines 123-126: float(raw_input(...)); text that is no number raises ValueError
PromptCutoff ==
    /\ pc = "prompt_cutoff"
    /\ ~seqid_cutoff_chosen
    /\ rounds < MaxRounds
    /\ nprompts' = nprompts + 1
    /\ \E text \in { Some(c) : c \in TypedCutoffs } \cup { None } :
         IF text = None
           THEN Raise("ValueError") /\ UNCHANGED << seqid_cutoff, typed, rounds >>
           ELSE /\ seqid_cutoff' = text
                /\ typed' = text
                /\ rounds' = rounds + 1
                /\ pc' = "prompt_confirm"
                /\ UNCHANGED err
    /\ UNCHANGED << args, projectdir, targetid, templateids, existing_templates,
                    templates_resolved_seq, df, seqid_cutoff_chosen,
                    confirm_seqid_cutoff, targets, calls, nwarnings, path >>

\* lines 127-129 and the loop test of line 123
PromptConfirm ==
    /\ pc = "prompt_confirm"
    /\ nprompts' = nprompts + 1
    /\ \E answer \in Answers :
         /\ confirm_seqid_cutoff' = Some(answer)
         /\ seqid_cutoff_chosen' = IsConfirmation(answer)
         /\ pc' = IF IsConfirmation(answer) THEN "select_filter" ELSE "prompt_cutoff"
    /\ UNCHANGED << args, projectdir, targetid, templateids, existing_templates,
                    templates_resolved_seq, df, seqid_cutoff, typed, rounds, targets,
                    calls, nwarnings, path, err >>

\* lines 131-134, and the assignment of the result at lines 84 / 89
SelectFilter ==
    /\ pc = "select_filter"
    /\ templateids' = Some(SelectedTemplateIds(df, seqid_cutoff[1]))
    /\ pc' = "check_empty"
    /\ UNCHANGED << args, projectdir, targetid, existing_templates,
                    templates_resolved_seq, df, seqid_cutoff, seqid_cutoff_chosen,
                    confirm_seqid_cutoff, typed, rounds, targets, calls, nprompts,
                    nwarnings, path, err >>

\* variant of NoTemplatesFound: only None counts as "no templates"
NoTemplatesFound_NoneOnly == templateids = None

\* line 91: not self.templateids or len(self.templateids) == 0
NoTemplatesFound == ~TruthyList(templateids) \/ Len(templateids[1]) = 0

\* lines 91-95; the locals of the selection are gone by now
CheckEmpty ==
    /\ pc = "check_empty"
    /\ IF NoTemplatesFound
         THEN /\ nwarnings' = nwarnings + 1
              /\ pc' = "returned"
         ELSE /\ pc' = "model_loops"
              /\ UNCHANGED nwarnings
    /\ df' = << >>
    /\ seqid_cutoff' = None
    /\ seqid_cutoff_chosen' = FALSE
    /\ confirm_seqid_cutoff' = None
    /\ typed' = None
    /\ rounds' = 0
    /\ UNCHANGED << args, projectdir, targetid, templateids, existing_templates,
                    templates_resolved_seq, targets, calls, nprompts, path, err >>

\* one statement of _model: at "from", make the calls "made" and go to "to"
ModelStep(from, made, to) ==
    /\ pc = from
    /\ calls' = calls \o made
    /\ pc' = to
    /\ UNCHANGED << args, projectdir, targetid, templateids, existing_templates,
                    templates_resolved_seq, df, seqid_cutoff, seqid_cutoff_chosen,
                    confirm_seqid_cutoff, typed, rounds, targets, nprompts, nwarnings,
                    path, err >>

\* variant of LoopModelEnabled: the flag is ignored
LoopModelEnabled_Always == TRUE

\* line 137: the loop modeling step runs
LoopModelEnabled == args.loopmodel

\* lines 137-138
model_template_loops ==
    ModelStep("model_loops",
              IF LoopModelEnabled
                THEN << Call("model_template_loops", NoTarget, templateids, NoClones) >>
                ELSE << >>,
              "align")

\* line 139
align_targets_and_templates ==
    ModelStep("align",
              << Call("align_targets_and_templates", targetid, templateids, NoClones) >>,
              "build")

\* line 140
build_models ==
    ModelStep("build", << Call("build_models", targetid, templateids, NoClones) >>, "cluster")

\* line 141
cluster_models ==
    ModelStep("cluster", << Call("cluster_models", targetid, NoTemplates, NoClones) >>, "refine_implicit")

\* line 142
refine_implicit_md ==
    ModelStep("refine_implicit",
              << Call("refine_implicit_md", targetid, templateids, NoClones) >>,
              "solvate")

\* line 143
solvate_models ==
    ModelStep("solvate", << Call("solvate_models", targetid, templateids, NoClones) >>, "nwaters")

\* line 144
determine_nwaters ==
    ModelStep("nwaters", << Call("determine_nwaters", targetid, templateids, NoClones) >>, "refine_explicit")

\* line 145
refine_explicit_md ==
    ModelStep("refine_explicit",
              << Call("refine_explicit_md", targetid, templateids, NoClones) >>,
              "package")

\* lines 147-148: the clone count handed to the packaging
CloneCount(nfahclones) == IF ~TruthyInt(nfahclones) THEN 1 ELSE nfahclones[1]

\* variant of PackagingRequested: the flag is ignored
PackagingRequested_Always == TRUE

\* line 146: the packaging step runs
PackagingRequested == args.package_for_fah

\* lines 146-149
package_for_fah ==
    ModelStep("package",
              IF PackagingRequested
                THEN << Call("package_for_fah", targetid, NoTemplates, Some(CloneCount(args.nfahclones))) >>
                ELSE << >>,
              "returned")

Next ==
    \/ InitProject
    \/ ValidateTarget
    \/ KeepTargetId
    \/ RequireDiscoveryArgs
    \/ GatherTargetsFromUniProt
    \/ CheckExistingTemplates
    \/ UseTemplateIds
    \/ gather_templates_from_pdb
    \/ gather_templates_from_uniprot
    \/ UseExistingTemplates
    \/ align_all_templates
    \/ OpenSelection
    \/ PromptCutoff
    \/ PromptConfirm
    \/ SelectFilter
    \/ CheckEmpty
    \/ model_template_loops
    \/ align_targets_and_templates
    \/ build_models
    \/ cluster_models
    \/ refine_implicit_md
    \/ solvate_models
    \/ determine_nwaters
    \/ refine_explicit_md
    \/ package_for_fah

Spec == Init /\ [][Next]_vars

\* the program's own step once the prompt has returned a confirmation is
\* taken; the prompts themselves wait for the user and get no fairness
LiveSpec == Spec /\ WF_vars(SelectFilter)

\* ------------------------------------------------ reading the call log
CallIndices == 1..Len(calls)
Made(f) == { i \in CallIndices : calls[i].fn = f }
IsAlignAll(c) == c.fn = "align_targets_and_templates" /\ c.templates = NoTemplates
IsSelection(c) == c.fn = "_select_templates_based_on_seqid_cutoff"
IsGathering(c) == c.fn \in {"gather_templates_from_pdb", "gather_templates_from_uniprot"}
IsDiscovery(c) == c.fn = "GatherTargetsFromUniProt"
IsSequenceCall(c) ==
    \/ c.fn \in {"model_template_loops", "build_models", "cluster_models",
                 "refine_implicit_md", "solvate_models", "determine_nwaters",
                 "refine_explicit_md"}
    \/ (c.fn = "align_targets_and_templates" /\ c.templates # NoTemplates)
IsModelingCall(c) == IsSequenceCall(c) \/ c.fn = "package_for_fah"
NoCall(Is(_)) == \A i \in CallIndices : ~Is(calls[i])

BeforeTargetResolved == pc \in {"init_project", "validate_target", "resolve_target"}
ModelingRan == pc = "returned" /\ nwarnings = 0

\* ------------------------------------------------------------------ C1
\* C1: when targetid and target_uniprot_entry_name are both supplied or
\* both absent, construction gets no further than the validation, where it
\* ends with the configuration error, and no discovery, gathering,
\* alignment, selection or modeling call is ever made.
C1_BothOrNeither ==
    TruthyStr(args.targetid) <=> TruthyStr(args.target_uniprot_entry_name)
C1_Theorem ==
    C1_BothOrNeither =>
        /\ pc \in {"init_project", "validate_target", "raised"}
        /\ (pc = "raised" => err = "config")
        /\ calls = << >>
C1_Witness ==
    /\ TruthyStr(args.targetid) /\ TruthyStr(args.target_uniprot_entry_name)
    /\ TruthyStr(args.uniprot_domain_regex) /\ TruthyList(args.templateids)
    /\ pc = "raised" /\ err = "config"

\* ------------------------------------------------------------------ C2
\* C2: with no targetid but an entry name and a domain pattern, discovery
\* is called exactly once, the resolved targetid is the id of the first
\* discovered target, and every later call that takes a target receives
\* that id (model_template_loops takes no target).
C2_Discovers ==
    /\ ~TruthyStr(args.targetid)
    /\ TruthyStr(args.target_uniprot_entry_name)
    /\ TruthyStr(args.uniprot_domain_regex)
C2_Theorem ==
    C2_Discovers =>
        /\ Cardinality(Made("GatherTargetsFromUniProt")) = (IF BeforeTargetResolved THEN 0 ELSE 1)
        /\ (~BeforeTargetResolved /\ err # "IndexError" => targetid = Some(Head(targets)))
        /\ \A i \in CallIndices :
             calls[i].target # NoTarget => calls[i].target = Some(Head(targets))
C2_Witness ==
    /\ C2_Discovers
    /\ Len(targets) > 1
    /\ targets[1] # targets[Len(targets)]
    /\ pc = "returned"
    /\ Made("package_for_fah") # {}
    /\ Made("_select_templates_based_on_seqid_cutoff") # {}

\* ------------------------------------------------------------------ C3
\* C3: on the explicit-templateids branch and on the final branch, a false
\* existing_templates ends construction with the configuration error and
\* no align-all, selection or modeling call has been made.
C3_Theorem ==
    (path \in {"templateids", "existing"} /\ ~existing_templates) =>
        /\ pc = "raised" /\ err = "config"
        /\ NoCall(IsAlignAll) /\ NoCall(IsSelection) /\ NoCall(IsModelingCall)
C3_Witness ==
    /\ path = "templateids" /\ ~existing_templates
    /\ pc = "raised" /\ err = "config"

\* ------------------------------------------------------------------ C4
\* C4: the selection returns the ids of exactly the rows whose identity is
\* strictly above the cutoff, each once, in the order of the report.
C4_Above == { i \in 1..Len(df) : df[i][2] > seqid_cutoff[1] }
C4_Nth(k) == CHOOSE i \in C4_Above : Cardinality({ j \in C4_Above : j < i }) = k - 1
C4_Selected ==
    /\ pc = "check_empty"
    /\ path \in {"query", "existing"}
C4_Theorem ==
    C4_Selected =>
        /\ Len(templateids[1]) = Cardinality(C4_Above)
        /\ \A k \in 1..Len(templateids[1]) : templateids[1][k] = df[C4_Nth(k)][1]
        /\ \A i \in 1..Len(df) :
             df[i][2] = seqid_cutoff[1] =>
                 \A k \in 1..Len(templateids[1]) : templateids[1][k] # df[i][1]
C4_Witness ==
    /\ C4_Selected
    /\ Len(df) >= 2
    /\ df[1][2] = seqid_cutoff[1]
    /\ df[2][2] > seqid_cutoff[1]
    /\ templateids = Some(<< df[2][1] >>)

\* ------------------------------------------------------------------ C5
\* C5: once the template resolution has left an empty template list, the
\* constructor has returned with one warning, no exception, and no call of
\* the modeling sequence.
C5_PastCheck ==
    pc \in {"returned", "model_loops", "align", "build", "cluster", "refine_implicit",
            "solvate", "nwaters", "refine_explicit", "package"}
C5_Empty == templateids = None \/ Len(templateids[1]) = 0
C5_Theorem ==
    (C5_PastCheck /\ C5_Empty) =>
        /\ pc = "returned"
        /\ nwarnings = 1
        /\ err = "none"
        /\ NoCall(IsModelingCall)
C5_Witness ==
    /\ pc = "returned" /\ nwarnings = 1 /\ C5_Empty
    /\ path = "query" /\ Len(calls) > 0

\* ------------------------------------------------------------------ C6
\* C6: the calls of the modeling sequence made so far are always an initial
\* part of: [loop modeling, iff loopmodel] alignment, building, clustering,
\* implicit refinement, solvation, water count, explicit refinement; and
\* once _model is past the explicit refinement all of them have been made.
C6_Made == SelectSeq(calls, IsSequenceCall)
C6_Names == [i \in 1..Len(C6_Made) |-> C6_Made[i].fn]
C6_Expected ==
    (IF args.loopmodel THEN << "model_template_loops" >> ELSE << >>)
    \o << "align_targets_and_templates", "build_models", "cluster_models",
          "refine_implicit_md", "solvate_models", "determine_nwaters",
          "refine_explicit_md" >>
C6_Theorem ==
    /\ Len(C6_Names) <= Len(C6_Expected)
    /\ C6_Names = SubSeq(C6_Expected, 1, Len(C6_Names))
    /\ (pc = "package" \/ ModelingRan => C6_Names = C6_Expected)
C6_Witness ==
    /\ ModelingRan
    /\ ~args.loopmodel
    /\ Len(C6_Names) = Len(C6_Expected)

\* ------------------------------------------------------------------ C7
\* C7: package_for_fah is called at most once, only when requested and only
\* after refine_explicit_md; a run through _model calls it iff requested;
\* it receives 1 when nfahclones is None and a positive nfahclones as is.
C7_Theorem ==
    /\ Cardinality(Made("package_for_fah")) <= 1
    /\ \A i \in Made("package_for_fah") :
         /\ args.package_for_fah
         /\ \E j \in Made("refine_explicit_md") : j < i
         /\ (args.nfahclones = None => calls[i].nclones = Some(1))
         /\ (args.nfahclones # None /\ args.nfahclones[1] > 0 =>
                 calls[i].nclones = args.nfahclones)
    /\ (ModelingRan => (Made("package_for_fah") # {} <=> args.package_for_fah))
C7_Witness ==
    /\ ModelingRan
    /\ args.nfahclones = None
    /\ \E i \in Made("package_for_fah") : calls[i].nclones = Some(1)

\* ------------------------------------------------------------------ C8
\* C8: the branch taken is the first of templateids, pdbids, query, none
\* whose argument is supplied; explicit templateids: no gathering, align-all
\* or selection call, ids unchanged; pdbids: gather_templates_from_pdb only,
\* every template of the report adopted; gather_templates_from_uniprot only
\* on the query branch; align-all precedes the selection.
C8_Priority ==
    IF TruthyList(args.templateids) THEN "templateids"
    ELSE IF TruthyList(args.pdbids) THEN "pdbids"
    ELSE IF TruthyStr(args.template_uniprot_query) THEN "query"
    ELSE "existing"
C8_Theorem ==
    /\ (path = "unresolved" =>
            NoCall(IsGathering) /\ NoCall(IsAlignAll) /\ NoCall(IsSelection))
    /\ (path # "unresolved" =>
          /\ path = C8_Priority
          /\ (path = "templateids" =>
                /\ NoCall(IsGathering) /\ NoCall(IsAlignAll) /\ NoCall(IsSelection)
                /\ templateids = args.templateids)
          /\ (path = "pdbids" =>
                /\ Cardinality(Made("gather_templates_from_pdb")) = 1
                /\ Made("gather_templates_from_uniprot") = {}
                /\ NoCall(IsAlignAll) /\ NoCall(IsSelection)
                /\ templateids = Some(templates_resolved_seq))
          /\ (path = "query" =>
                /\ Cardinality(Made("gather_templates_from_uniprot")) = 1
                /\ Made("gather_templates_from_pdb") = {})
          /\ (path = "existing" => NoCall(IsGathering))
          /\ \A i \in CallIndices :
               IsSelection(calls[i]) => \E j \in 1..(i - 1) : IsAlignAll(calls[j]))
C8_Witness ==
    /\ path = "pdbids"
    /\ TruthyStr(args.template_uniprot_query)
    /\ Len(templates_resolved_seq) > 1
    /\ ModelingRan

\* ------------------------------------------------------------------ C9
\* C9: without a cutoff argument the selection prompts in rounds of two
\* reads; it leaves the loop only on an answer that is y or yes in any
\* letter case and starts another round on any other answer; the cutoff it
\* filters with is the one typed in the confirmed round; once a confirming
\* answer is given the selection returns.  With a cutoff argument (0
\* included) nothing is read from the console.
C9_Yes ==
    { a \in Answers :
        \/ (Len(a) = 1 /\ a[1] \in {"y", "Y"})
        \/ (Len(a) = 3 /\ a[1] \in {"y", "Y"} /\ a[2] \in {"e", "E"} /\ a[3] \in {"s", "S"}) }
C9_Interactive == args.model_seqid_cutoff = None
C9_Safety ==
    /\ (~C9_Interactive => nprompts = 0)
    /\ (C9_Interactive /\ pc \in {"select_filter", "check_empty"} /\ path \in {"query", "existing"} =>
          /\ confirm_seqid_cutoff # None /\ confirm_seqid_cutoff[1] \in C9_Yes
          /\ seqid_cutoff = typed
          /\ nprompts = 2 * rounds)
    /\ (pc = "prompt_cutoff" /\ rounds > 0 =>
          /\ confirm_seqid_cutoff[1] \notin C9_Yes
          /\ nprompts = 2 * rounds)
    /\ (pc = "prompt_confirm" => nprompts = 2 * rounds - 1)
    /\ (pc = "check_empty" /\ C9_Interactive /\ path \in {"query", "existing"} =>
          templateids = Some(SelectedTemplateIds(df, typed[1])))
C9_Confirmed ==
    /\ pc = "select_filter"
    /\ C9_Interactive
C9_Theorem == []C9_Safety /\ (C9_Confirmed ~> pc = "check_empty")
C9_Witness ==
    /\ pc = "check_empty"
    /\ C9_Interactive
    /\ rounds = 2
    /\ confirm_seqid_cutoff = Some(<< "Y", "e", "S" >>)
    /\ Len(templateids[1]) = 1 /\ Len(df) = 2

\* ----------------------------------------------------------------- C10
\* C10: with no targetid, an entry name and no domain pattern, construction
\* ends with the configuration error without calling target discovery; with
\* a targetid, target discovery is never called.
C10_NoPattern ==
    /\ ~TruthyStr(args.targetid)
    /\ TruthyStr(args.target_uniprot_entry_name)
    /\ ~TruthyStr(args.uniprot_domain_regex)
C10_Theorem ==
    /\ (C10_NoPattern =>
          /\ (BeforeTargetResolved \/ pc = "raised")
          /\ (pc = "raised" => err = "config")
          /\ NoCall(IsDiscovery))
    /\ (TruthyStr(args.targetid) => NoCall(IsDiscovery))
C10_Witness ==
    /\ C10_NoPattern
    /\ pc = "raised" /\ err = "config"
    /\ args.targetid = Some("")
====
